---- MODULE Spec2Model ----
(***************************************************************************)
(* CHIP-8 interpreter core of chip8-rust (src/src/chip8.rs): the Chip8     *)
(* aggregate, its operations reset / load_rom / set_key / step, and the    *)
(* decode-execute function execute_opcode with every arm of its match.     *)
(*                                                                         *)
(* Rust arrays are 0-based, so v, stack and keys are functions on          *)
(* 0..len-1.  The two large arrays are held by their non-default entries:  *)
(* ram is the function from the addresses whose byte is not 0 to that      *)
(* byte (MemGet / MemSet read and write it as the 4096-byte array), and    *)
(* display is the set of the indexes whose cell is true.  An indexing      *)
(* outside an array and an arithmetic overflow under overflow checks are   *)
(* panics: the process aborts, which the model records in `result` and     *)
(* `halted`.                                                               *)
(***************************************************************************)
EXTENDS Integers, Sequences, FiniteSets, TLC

----------------------------------------------------------------------------
(* Program constants *)

DISPLAY_WIDTH == 64
DISPLAY_HEIGHT == 32
DISPLAY_BUFFER_LENGTH == DISPLAY_WIDTH * DISPLAY_HEIGHT
ADDR_PROGRAM == 512
ADDR_CHARACTER == 0
SIZE_CHARACTER == 5
NUM_REGS == 16
STACK_LEN == 16
RAM_LEN == 4096
NUM_KEYS == 16
U8_MOD == 256
U16_MOD == 65536

CHARACTER_ROM ==
  << 240, 144, 144, 144, 240,
      32,  96,  32,  32, 112,
     240,  16, 240, 128, 240,
     240,  16, 240,  16, 240,
     144, 144, 240,  16,  16,
     240, 128, 240,  16, 240,
     240, 128, 240, 144, 240,
     240,  16,  32,  64,  64,
     240, 144, 240, 144, 240,
     240, 144, 240,  16, 240,
     240, 144, 240, 144, 144,
     224, 144, 224, 144, 224,
     240, 128, 128, 128, 240,
     224, 144, 144, 144, 224,
     240, 128, 240, 128, 240,
     240, 128, 240, 128, 128 >>

----------------------------------------------------------------------------
(* Integer helpers: the u8 / u16 operators the code uses *)

RECURSIVE BitAnd(_, _)
BitAnd(a, b) ==
  IF a = 0 \/ b = 0 THEN 0
  ELSE (a % 2) * (b % 2) + 2 * BitAnd(a \div 2, b \div 2)

RECURSIVE BitOr(_, _)
BitOr(a, b) ==
  IF a = 0 THEN b
  ELSE IF b = 0 THEN a
  ELSE (IF (a % 2) + (b % 2) > 0 THEN 1 ELSE 0) + 2 * BitOr(a \div 2, b \div 2)

RECURSIVE BitXor(_, _)
BitXor(a, b) ==
  IF a = 0 THEN b
  ELSE IF b = 0 THEN a
  ELSE (((a % 2) + (b % 2)) % 2) + 2 * BitXor(a \div 2, b \div 2)

Shr(a, n) == a \div (2 ^ n)

\* u16::overflowing_shr(n): the shift amount is taken modulo the bit width.
OverflowingShr16(a, n) == a \div (2 ^ (n % 16))

----------------------------------------------------------------------------
(* State *)

VARIABLES
  v, i, vf, dt, st, pc, sp, stack, ram, display, keys, rng,  \* struct Chip8
  overflow_checks,   \* build profile: integer overflow panics (TRUE) or wraps
  halted,            \* the process was aborted by a panic
  lastOp,            \* the operation that produced this state
  result,            \* what that operation returned
  opcode,            \* the word the last step() fetched
  loads,             \* load_rom calls since the last reset (bounded)
  romLen,            \* length of the data the last load_rom was handed
  emu,               \* struct Emulator, but for cpu and the window handle
  issued,            \* timer ticks and instructions since the last reset
  last               \* what the last Emulator::step did

machineVars == << v, i, vf, dt, st, pc, sp, stack, ram, display, keys, rng >>
vars == << v, i, vf, dt, st, pc, sp, stack, ram, display, keys, rng,
           overflow_checks, halted, lastOp, result, opcode, loads, romLen,
           emu, issued, last >>

driverVars == << emu, issued, last >>

\* The Chip8 aggregate as one value.
Machine ==
  [ v |-> v, i |-> i, vf |-> vf, dt |-> dt, st |-> st, pc |-> pc, sp |-> sp,
    stack |-> stack, ram |-> ram, display |-> display, keys |-> keys,
    rng |-> rng ]

SetMachine(s) ==
  /\ v' = s.v
  /\ i' = s.i
  /\ vf' = s.vf
  /\ dt' = s.dt
  /\ st' = s.st
  /\ pc' = s.pc
  /\ sp' = s.sp
  /\ stack' = s.stack
  /\ ram' = s.ram
  /\ display' = s.display
  /\ keys' = s.keys
  /\ rng' = s.rng

\* Outcomes of an operation: Ok, an Err value, or a panic.
Faults == { "StackUnderflow", "StackOverflow", "UnknownOpCode" }
Panics == { "PanicIndexV", "PanicIndexStack", "PanicIndexRam", "PanicOverflow" }

Ok(s) == [ s |-> s, res |-> "Ok" ]
Err(s, e) == [ s |-> s, res |-> e ]

\* fill_array(a, val) for each array of the aggregate.
ZeroRegs == [ r \in 0 .. NUM_REGS - 1 |-> 0 ]
ZeroStack == [ k \in 0 .. STACK_LEN - 1 |-> 0 ]
ZeroRam == [ a \in {} |-> 0 ]
BlankDisplay == {}
NoKeys == [ k \in 0 .. NUM_KEYS - 1 |-> FALSE ]

----------------------------------------------------------------------------
(* Memory *)

\* ram[a] and ram[a] = b on the array held by its non-zero bytes.
MemGet(mem, a) == IF a \in DOMAIN mem THEN mem[a] ELSE 0

MemSet(mem, a, b) ==
  IF b # 0 THEN (a :> b) @@ mem
  ELSE IF a \in DOMAIN mem THEN [ k \in DOMAIN mem \ { a } |-> mem[k] ]
  ELSE mem

\* The copy loop of mem_write_slice: byte k of the slice lands at start + k.
WriteSlice(mem, start, slice) ==
  LET span == start .. start + Len(slice) - 1
      dom == (DOMAIN mem \ span) \cup { a \in span : slice[a - start + 1] # 0 }
  IN [ a \in dom |-> IF a \in span THEN slice[a - start + 1] ELSE mem[a] ]

\* mem_write_slice that refuses only when start + len > ram.len().
mem_write_sliceToTheEnd(s, start, slice) ==
  IF start + Len(slice) > RAM_LEN
  THEN Err(s, "OutOfBounds")
  ELSE Ok([ s EXCEPT !.ram = WriteSlice(s.ram, start, slice) ])

\* mem_write_slice: refuse when start + len >= ram.len(), else copy.
mem_write_slice(s, start, slice) ==
  IF start + Len(slice) >= RAM_LEN
  THEN Err(s, "OutOfBounds")
  ELSE Ok([ s EXCEPT !.ram = WriteSlice(s.ram, start, slice) ])

mem_read_byte(s, addr) == MemGet(s.ram, addr % RAM_LEN)

\* mem_read_opcode: msb at addr, lsb at addr + 1 (u16 addition).
mem_read_opcode(s, addr) ==
  IF addr + 1 >= U16_MOD /\ overflow_checks
  THEN [ word |-> 0, res |-> "PanicOverflow" ]
  ELSE [ word |-> mem_read_byte(s, addr) * 256
                    + mem_read_byte(s, (addr + 1) % U16_MOD),
         res |-> "Ok" ]

----------------------------------------------------------------------------
(* reset, load_rom, set_key *)

\* The deterministic generator is modelled by the number of words drawn
\* since it was seeded from RNG_SEED; RngWord stands for its output stream,
\* a fixed sequence of which the code keeps the low byte.
RNG_SEEDED == 0
RngWord(n) == (((n + 1) * 75) + 74) % 65537

\* reset() that forgets fill_array(&mut self.ram, 0).
resetKeepsRam(s) ==
  LET cleared ==
        [ s EXCEPT
            !.rng = RNG_SEEDED,
            !.i = 0, !.vf = 0, !.dt = 0, !.st = 0,
            !.pc = ADDR_PROGRAM, !.sp = 0,
            !.v = ZeroRegs,
            !.stack = ZeroStack,
            !.display = BlankDisplay,
            !.keys = NoKeys ]
  IN mem_write_slice(cleared, ADDR_CHARACTER, CHARACTER_ROM).s

\* reset() that forgets self.rng = SeedableRng::from_seed(RNG_SEED).
resetKeepsRng(s) ==
  LET cleared ==
        [ s EXCEPT
            !.i = 0, !.vf = 0, !.dt = 0, !.st = 0,
            !.pc = ADDR_PROGRAM, !.sp = 0,
            !.v = ZeroRegs,
            !.stack = ZeroStack,
            !.display = BlankDisplay,
            !.keys = NoKeys,
            !.ram = ZeroRam ]
  IN mem_write_slice(cleared, ADDR_CHARACTER, CHARACTER_ROM).s

reset(s) ==
  LET cleared ==
        [ s EXCEPT
            !.rng = RNG_SEEDED,
            !.i = 0, !.vf = 0, !.dt = 0, !.st = 0,
            !.pc = ADDR_PROGRAM, !.sp = 0,
            !.v = ZeroRegs,
            !.stack = ZeroStack,
            !.display = BlankDisplay,
            !.keys = NoKeys,
            !.ram = ZeroRam ]
  IN mem_write_slice(cleared, ADDR_CHARACTER, CHARACTER_ROM).s

load_rom(s, data) == mem_write_slice(s, ADDR_PROGRAM, data)

set_key(s, key) == [ s EXCEPT !.keys[BitAnd(key, 15)] = TRUE ]

\* A countdown without the guard: a timer at 0 wraps to 255.
TimerDecrementWraps(t) == (t - 1) % U8_MOD

\* The countdown of one timer: chip8.rs decrements while above zero.
TimerDecrement(t) == IF t > 0 THEN t - 1 ELSE t

\* timer_tick is called by the driver (emu.rs:90); its body is not in
\* chip8.rs, so it follows the specification: both timers count down
\* independently, nothing else changes.
timer_tick(s) ==
  [ s EXCEPT !.dt = TimerDecrement(s.dt), !.st = TimerDecrement(s.st) ]

----------------------------------------------------------------------------
(* execute_opcode: the arms of the match, one operator each.  x and y are  *)
(* the usize values the operand extraction produced; an arm that indexes   *)
(* v with a value outside 0..15 panics.                                    *)

\* self.pc += n on a u16.
PcAdd(s, n) ==
  IF s.pc + n >= U16_MOD
  THEN IF overflow_checks
       THEN Err(s, "PanicOverflow")
       ELSE Ok([ s EXCEPT !.pc = (s.pc + n) % U16_MOD ])
  ELSE Ok([ s EXCEPT !.pc = s.pc + n ])

\* 00E0 CLS
OpCls(s) ==
  PcAdd([ s EXCEPT !.display = BlankDisplay ], 2)

\* RET that loads pc from the stack before it tests the stack pointer.
OpRetLoadsPcFirst(s) ==
  IF s.sp >= STACK_LEN
  THEN Err(s, "PanicIndexStack")
  ELSE IF s.sp = 0
  THEN Err([ s EXCEPT !.pc = s.stack[s.sp] ], "StackUnderflow")
  ELSE PcAdd([ s EXCEPT !.pc = s.stack[s.sp], !.sp = s.sp - 1 ], 2)

\* 00EE RET
OpRet(s) ==
  IF s.sp = 0
  THEN Err(s, "StackUnderflow")
  ELSE IF s.sp >= STACK_LEN
  THEN Err(s, "PanicIndexStack")
  ELSE PcAdd([ s EXCEPT !.pc = s.stack[s.sp], !.sp = s.sp - 1 ], 2)

\* JP addr
OpJp(s, nnn) == Ok([ s EXCEPT !.pc = nnn ])

\* CALL addr
OpCall(s, nnn) ==
  IF s.sp >= 255
  THEN Err(s, "StackOverflow")
  ELSE IF s.sp + 1 >= STACK_LEN
  THEN Err(s, "PanicIndexStack")
  ELSE Ok([ s EXCEPT !.sp = s.sp + 1, !.stack[s.sp + 1] = s.pc, !.pc = nnn ])

\* SE Vx, kk
OpSeImm(s, x, kk) ==
  IF x >= NUM_REGS THEN Err(s, "PanicIndexV")
  ELSE PcAdd(s, IF s.v[x] = kk THEN 4 ELSE 2)

\* SNE Vx, kk
OpSneImm(s, x, kk) ==
  IF x >= NUM_REGS THEN Err(s, "PanicIndexV")
  ELSE PcAdd(s, IF s.v[x] # kk THEN 4 ELSE 2)

\* SE Vx, Vy
OpSeReg(s, x, y) ==
  IF x >= NUM_REGS \/ y >= NUM_REGS THEN Err(s, "PanicIndexV")
  ELSE PcAdd(s, IF s.v[x] = s.v[y] THEN 4 ELSE 2)

\* SNE Vx, Vy
OpSneReg(s, x, y) ==
  IF x >= NUM_REGS \/ y >= NUM_REGS THEN Err(s, "PanicIndexV")
  ELSE PcAdd(s, IF s.v[x] # s.v[y] THEN 4 ELSE 2)

\* LD Vx, kk
OpLdImm(s, x, kk) ==
  IF x >= NUM_REGS THEN Err(s, "PanicIndexV")
  ELSE PcAdd([ s EXCEPT !.v[x] = kk ], 2)

\* ADD Vx, kk: self.v[x] += kk on a u8.
OpAddImm(s, x, kk) ==
  IF x >= NUM_REGS THEN Err(s, "PanicIndexV")
  ELSE IF s.v[x] + kk >= U8_MOD /\ overflow_checks
  THEN Err(s, "PanicOverflow")
  ELSE PcAdd([ s EXCEPT !.v[x] = (s.v[x] + kk) % U8_MOD ], 2)

\* LD Vx, Vy
OpLdReg(s, x, y) ==
  IF x >= NUM_REGS \/ y >= NUM_REGS THEN Err(s, "PanicIndexV")
  ELSE PcAdd([ s EXCEPT !.v[x] = s.v[y] ], 2)

\* OR Vx, Vy
OpOr(s, x, y) ==
  IF x >= NUM_REGS \/ y >= NUM_REGS THEN Err(s, "PanicIndexV")
  ELSE PcAdd([ s EXCEPT !.v[x] = BitOr(s.v[x], s.v[y]) ], 2)

\* AND Vx, Vy: the code computes v[y] & v[y].
OpAnd(s, x, y) ==
  IF x >= NUM_REGS \/ y >= NUM_REGS THEN Err(s, "PanicIndexV")
  ELSE PcAdd([ s EXCEPT !.v[x] = BitAnd(s.v[y], s.v[y]) ], 2)

\* XOR Vx, Vy: the code computes v[y] ^ v[y].
OpXor(s, x, y) ==
  IF x >= NUM_REGS \/ y >= NUM_REGS THEN Err(s, "PanicIndexV")
  ELSE PcAdd([ s EXCEPT !.v[x] = BitXor(s.v[y], s.v[y]) ], 2)

\* ADD Vx, Vy: vf = carry, then v[x] = low byte of the sum.
OpAddReg(s, x, y) ==
  IF x >= NUM_REGS \/ y >= NUM_REGS THEN Err(s, "PanicIndexV")
  ELSE LET sum == s.v[x] + s.v[y]
       IN PcAdd([ s EXCEPT !.vf = IF sum > 255 THEN 1 ELSE 0,
                           !.v[x] = BitAnd(sum, 255) ], 2)

\* SUB Vx, Vy: vf = (v[x] > v[y]), then wrapping_sub.
OpSub(s, x, y) ==
  IF x >= NUM_REGS \/ y >= NUM_REGS THEN Err(s, "PanicIndexV")
  ELSE PcAdd([ s EXCEPT !.vf = IF s.v[x] > s.v[y] THEN 1 ELSE 0,
                        !.v[x] = (s.v[x] - s.v[y]) % U8_MOD ], 2)

\* SHR Vx
OpShr(s, x) ==
  IF x >= NUM_REGS THEN Err(s, "PanicIndexV")
  ELSE PcAdd([ s EXCEPT !.vf = BitAnd(s.v[x], 1),
                        !.v[x] = Shr(s.v[x], 1) ], 2)

\* SUBN Vx, Vy: vf = (v[y] > v[x]), then wrapping_sub.
OpSubn(s, x, y) ==
  IF x >= NUM_REGS \/ y >= NUM_REGS THEN Err(s, "PanicIndexV")
  ELSE PcAdd([ s EXCEPT !.vf = IF s.v[y] > s.v[x] THEN 1 ELSE 0,
                        !.v[x] = (s.v[y] - s.v[x]) % U8_MOD ], 2)

\* SHL Vx: vf = v[x] & 0x80 >> 7, where >> binds tighter than &.
OpShl(s, x) ==
  IF x >= NUM_REGS THEN Err(s, "PanicIndexV")
  ELSE PcAdd([ s EXCEPT !.vf = BitAnd(s.v[x], Shr(128, 7)),
                        !.v[x] = (s.v[x] * 2) % U8_MOD ], 2)

\* LD I, addr
OpLdI(s, nnn) == PcAdd([ s EXCEPT !.i = nnn ], 2)

\* JP V0, addr
OpJpV0(s, nnn) == Ok([ s EXCEPT !.pc = s.v[0] + nnn ])

\* RND Vx, kk: the right-hand side draws from the generator before v is
\* indexed.
OpRnd(s, x, kk) ==
  IF x >= NUM_REGS THEN Err(s, "PanicIndexV")
  ELSE PcAdd([ s EXCEPT !.v[x] = BitAnd(kk, BitAnd(RngWord(s.rng), 255)),
                        !.rng = s.rng + 1 ], 2)

\* disp_coord_to_index: both coordinates wrap.
disp_coord_to_index(x, y) ==
  (y % DISPLAY_HEIGHT) * DISPLAY_WIDTH + (x % DISPLAY_WIDTH)

\* disp_toggle_coord: a lit cell sets vf, then the cell flips.
disp_toggle_coord(s, x, y) ==
  LET idx == disp_coord_to_index(x, y)
  IN [ s EXCEPT !.vf = IF idx \in s.display THEN 1 ELSE s.vf,
                !.display = IF idx \in s.display
                            THEN s.display \ { idx }
                            ELSE s.display \cup { idx } ]

\* The loop of disp_toggle_sprite_row from bit b down to bit 0.
RECURSIVE ToggleBits(_, _, _, _, _)
ToggleBits(s, x, y, byte, b) ==
  LET s1 == IF BitAnd(Shr(byte, b), 1) = 1
            THEN disp_toggle_coord(s, x + 7 - b, y)
            ELSE s
  IN IF b = 0 THEN s1 ELSE ToggleBits(s1, x, y, byte, b - 1)

disp_toggle_sprite_row(s, x, y, byte) == ToggleBits(s, x, y, byte, 7)

\* The row loop of DRW from row dy: ram is indexed with i + dy unwrapped.
RECURSIVE DrwRows(_, _, _, _, _, _)
DrwRows(s, vx, vy, base, dy, n) ==
  IF dy >= n THEN Ok(s)
  ELSE IF base + dy >= RAM_LEN THEN Err(s, "PanicIndexRam")
  ELSE DrwRows(disp_toggle_sprite_row(s, vx, vy + dy, MemGet(s.ram, base + dy)),
               vx, vy, base, dy + 1, n)

\* DRW Vx, Vy, nibble
OpDrw(s, x, y, nibble) ==
  IF x >= NUM_REGS \/ y >= NUM_REGS THEN Err(s, "PanicIndexV")
  ELSE LET r == DrwRows([ s EXCEPT !.vf = 0 ], s.v[x], s.v[y], s.i, 0, nibble)
       IN IF r.res # "Ok" THEN r ELSE PcAdd(r.s, 2)

\* SKP Vx
OpSkp(s, key_pressed) == PcAdd(s, IF key_pressed THEN 4 ELSE 2)

\* SKNP Vx
OpSknp(s, key_pressed) == PcAdd(s, IF ~ key_pressed THEN 4 ELSE 2)

\* Family 0xE: the key is looked up before kk is matched.
OpKey(s, x, kk) ==
  IF x >= NUM_REGS THEN Err(s, "PanicIndexV")
  ELSE LET key_pressed == s.keys[BitAnd(s.v[x], 15)]
       IN CASE kk = 158 -> OpSkp(s, key_pressed)
            [] kk = 161 -> OpSknp(s, key_pressed)
            [] OTHER -> Err(s, "UnknownOpCode")

\* LD Vx, DT
OpLdVxDt(s, x) ==
  IF x >= NUM_REGS THEN Err(s, "PanicIndexV")
  ELSE PcAdd([ s EXCEPT !.v[x] = s.dt ], 2)

\* LD Vx, K: the first pressed key, if any; otherwise nothing changes.
OpLdVxK(s, x) ==
  LET pressed == { k \in 0 .. NUM_KEYS - 1 : s.keys[k] }
  IN IF pressed = {} THEN Ok(s)
     ELSE IF x >= NUM_REGS THEN Err(s, "PanicIndexV")
     ELSE LET key_pressed == CHOOSE k \in pressed : \A j \in pressed : k <= j
          IN PcAdd([ s EXCEPT !.v[x] = key_pressed ], 2)

\* LD DT, Vx
OpLdDtVx(s, x) ==
  IF x >= NUM_REGS THEN Err(s, "PanicIndexV")
  ELSE PcAdd([ s EXCEPT !.dt = s.v[x] ], 2)

\* LD ST, Vx
OpLdStVx(s, x) ==
  IF x >= NUM_REGS THEN Err(s, "PanicIndexV")
  ELSE PcAdd([ s EXCEPT !.st = s.v[x] ], 2)

\* ADD I, Vx: self.i += v[x] on a u16.
OpAddIVx(s, x) ==
  IF x >= NUM_REGS THEN Err(s, "PanicIndexV")
  ELSE IF s.i + s.v[x] >= U16_MOD /\ overflow_checks
  THEN Err(s, "PanicOverflow")
  ELSE PcAdd([ s EXCEPT !.i = (s.i + s.v[x]) % U16_MOD ], 2)

\* LD F, Vx
OpLdFVx(s, x) ==
  IF x >= NUM_REGS THEN Err(s, "PanicIndexV")
  ELSE PcAdd([ s EXCEPT !.i = ADDR_CHARACTER
                                + SIZE_CHARACTER * BitAnd(s.v[x], 15) ], 2)

\* LD B, Vx: ram[i], ram[i + 1], ram[i + 2] are indexed unwrapped.
OpLdBVx(s, x) ==
  IF x >= NUM_REGS THEN Err(s, "PanicIndexV")
  ELSE IF s.i + 2 >= RAM_LEN THEN Err(s, "PanicIndexRam")
  ELSE LET vx == s.v[x]
           hundreds == (vx \div 100) % 10
           tens == (vx \div 10) % 10
           ones == vx % 10
       IN PcAdd([ s EXCEPT !.ram =
                    MemSet(MemSet(MemSet(s.ram, s.i, hundreds),
                                  s.i + 1, tens),
                           s.i + 2, ones) ], 2)

\* The loop of LD [I], Vx from register di: it runs over 0..=0xf.
RECURSIVE StoreFrom(_, _)
StoreFrom(s, di) ==
  IF di > 15 THEN s
  ELSE StoreFrom([ s EXCEPT !.ram =
                     MemSet(s.ram, (s.i + di) % RAM_LEN, s.v[di]) ], di + 1)

\* LD [I], Vx whose loop starts at register 1: V0 is not stored.
OpStoreRegsSkipsV0(s) == PcAdd(StoreFrom(s, 1), 2)

\* LD [I], Vx
OpStoreRegs(s) == PcAdd(StoreFrom(s, 0), 2)

\* The loop of LD Vx, [I] from register di: it runs over 0..=0xf.
RECURSIVE LoadFrom(_, _)
LoadFrom(s, di) ==
  IF di > 15 THEN s
  ELSE LoadFrom([ s EXCEPT !.v[di] = MemGet(s.ram, (s.i + di) % RAM_LEN) ],
                di + 1)

\* LD Vx, [I]
OpLoadRegs(s) == PcAdd(LoadFrom(s, 0), 2)

----------------------------------------------------------------------------
(* Operand extraction and dispatch *)

OperandNnn(op) == BitAnd(op, 4095)

\* (opcode & 0x0f00).overflowing_shr(16).0
OperandX(op) == OverflowingShr16(BitAnd(op, 3840), 16)

\* opcode & 0x00f0 >> 8, where >> binds tighter than &
OperandY(op) == BitAnd(op, Shr(240, 8))

OperandKk(op) == BitAnd(op, 255)

OperandNibble(op) == BitAnd(op, 15)

\* opcode.overflowing_shr(24).0, the value the match dispatches on
Family(op) == OverflowingShr16(op, 24)

execute_opcode(s, op) ==
  LET nnn == OperandNnn(op)
      x == OperandX(op)
      y == OperandY(op)
      kk == OperandKk(op)
      nibble == OperandNibble(op)
      fam == Family(op)
  IN CASE fam = 0 ->
            IF op = 224 THEN OpCls(s)
            ELSE IF op = 238 THEN OpRet(s)
            ELSE Err(s, "UnknownOpCode")
       [] fam = 1 -> OpJp(s, nnn)
       [] fam = 2 -> OpCall(s, nnn)
       [] fam = 3 -> OpSeImm(s, x, kk)
       [] fam = 4 -> OpSneImm(s, x, kk)
       [] fam = 5 ->
            IF nibble = 0 THEN OpSeReg(s, x, y) ELSE Err(s, "UnknownOpCode")
       [] fam = 6 -> OpLdImm(s, x, kk)
       [] fam = 7 -> OpAddImm(s, x, kk)
       [] fam = 8 ->
            CASE nibble = 0 -> OpLdReg(s, x, y)
              [] nibble = 1 -> OpOr(s, x, y)
              [] nibble = 2 -> OpAnd(s, x, y)
              [] nibble = 3 -> OpXor(s, x, y)
              [] nibble = 4 -> OpAddReg(s, x, y)
              [] nibble = 5 -> OpSub(s, x, y)
              [] nibble = 6 -> OpShr(s, x)
              [] nibble = 7 -> OpSubn(s, x, y)
              [] nibble = 14 -> OpShl(s, x)
              [] OTHER -> Err(s, "UnknownOpCode")
       [] fam = 9 ->
            IF nibble = 0 THEN OpSneReg(s, x, y) ELSE Err(s, "UnknownOpCode")
       [] fam = 10 -> OpLdI(s, nnn)
       [] fam = 11 -> OpJpV0(s, nnn)
       [] fam = 12 -> OpRnd(s, x, kk)
       [] fam = 13 -> OpDrw(s, x, y, nibble)
       [] fam = 14 -> OpKey(s, x, kk)
       [] fam = 15 ->
            CASE kk = 7 -> OpLdVxDt(s, x)
              [] kk = 10 -> OpLdVxK(s, x)
              [] kk = 21 -> OpLdDtVx(s, x)
              [] kk = 24 -> OpLdStVx(s, x)
              [] kk = 30 -> OpAddIVx(s, x)
              [] kk = 41 -> OpLdFVx(s, x)
              [] kk = 51 -> OpLdBVx(s, x)
              [] kk = 85 -> OpStoreRegs(s)
              [] kk = 101 -> OpLoadRegs(s)
              [] OTHER -> Err(s, "UnknownOpCode")
       [] OTHER -> Err(s, "UnknownOpCode")

\* step: count both timers down, fetch at pc, execute, and on success
\* clear the keys.  An Err returns before the keys are cleared.
step(s) ==
  LET s1 == [ s EXCEPT !.dt = TimerDecrement(s.dt),
                       !.st = TimerDecrement(s.st) ]
      f == mem_read_opcode(s1, s1.pc)
  IN IF f.res # "Ok"
     THEN [ s |-> s1, res |-> f.res, word |-> 0 ]
     ELSE LET r == execute_opcode(s1, f.word)
          IN IF r.res = "Ok"
             THEN [ s |-> [ r.s EXCEPT !.keys = NoKeys ],
                    res |-> "Ok", word |-> f.word ]
             ELSE [ s |-> r.s, res |-> r.res, word |-> f.word ]

----------------------------------------------------------------------------
(* The driver: struct Emulator and Emulator::step.  Durations are whole     *)
(* nanoseconds; the window and its display buffer are outputs and are not  *)
(* part of the state.                                                      *)

\* Duration::from_secs_f64(DEFAULT_CLOCK_PERIOD_S), 1/1000 s.
DEFAULT_CLOCK_PERIOD_NS == 1000000

\* clock_period: None, the native clock (no Duration is negative).
NativeClock == -1

\* Emulator::new(), but for cpu; timer_period is what
\* Duration::from_secs_f64(DEFAULT_TIMER_PERIOD_S) gave.
NewEmulator(timer_period) ==
  [ clock_period |-> DEFAULT_CLOCK_PERIOD_NS,
    timer_period |-> timer_period,
    timer_acc |-> 0,
    paused |-> FALSE,
    step |-> 0,
    closing |-> FALSE,
    debug_print |-> FALSE,
    rom |-> << >> ]

\* A machine that is driven through its own methods has no Emulator.
NoEmulator == << >>

NothingIssued == [ ticks |-> 0, instructions |-> 0 ]

\* executed: cpu.step() was called; ticked: timer ticks issued; unpaused:
\* Space found the driver paused; entered: Enter was among the keys.
NothingDone ==
  [ executed |-> FALSE, ticked |-> 0, unpaused |-> FALSE, entered |-> FALSE ]

\* The driver and its machine as one value; res and word are what the
\* cpu.step() of this call returned and fetched, aborted a panic in it,
\* failed an Err that Emulator::step hands to main.
World ==
  [ cpu |-> Machine, emu |-> emu, issued |-> issued, last |-> NothingDone,
    res |-> "Ok", word |-> opcode, aborted |-> FALSE, failed |-> FALSE ]

pause(w) == [ w EXCEPT !.emu.paused = TRUE ]

unpause(w) == [ w EXCEPT !.emu.paused = FALSE ]

quit(w) == [ w EXCEPT !.emu.closing = TRUE ]

\* Emulator::reset: reset the machine, load the rom, empty the accumulator.
emu_reset(w) ==
  LET l == load_rom(reset(w.cpu), w.emu.rom)
  IN IF l.res # "Ok"
     THEN [ w EXCEPT !.cpu = l.s, !.res = l.res, !.failed = TRUE ]
     ELSE [ w EXCEPT !.cpu = l.s, !.emu.timer_acc = 0,
                     !.issued = NothingIssued ]

\* One key of get_keys_pressed() in read_inputs.
read_key(w, key) ==
  CASE key = "Escape" -> quit(w)
    [] key = "F1" -> emu_reset(w)
    [] key = "F2" -> [ w EXCEPT !.emu.debug_print = ~ w.emu.debug_print ]
    [] key = "Space" ->
         IF w.emu.paused
         THEN [ unpause(w) EXCEPT !.last.unpaused = TRUE ]
         ELSE pause(w)
    [] key = "Enter" ->
         [ pause(w) EXCEPT !.emu.step = w.emu.step + 1,
                           !.last.entered = TRUE ]
    [] OTHER -> w

\* The loop over the pressed keys, from key k of the order they come in;
\* an Err of reset() leaves the loop.
RECURSIVE ReadKeysPressed(_, _, _)
ReadKeysPressed(w, keys_pressed, k) ==
  IF k > Len(keys_pressed) \/ w.failed THEN w
  ELSE ReadKeysPressed(read_key(w, keys_pressed[k]), keys_pressed, k + 1)

\* The loop over the mapped keys that are down: set_key for each code.
RECURSIVE SetMappedKeys(_, _)
SetMappedKeys(cpu, codes) ==
  IF codes = {} THEN cpu
  ELSE LET code == CHOOSE c \in codes : TRUE
       IN SetMappedKeys(set_key(cpu, code), codes \ { code })

read_inputs(w, keys_pressed, codes) ==
  LET w1 == ReadKeysPressed(w, keys_pressed, 1)
  IN IF w1.failed THEN w1
     ELSE [ w1 EXCEPT !.cpu = SetMappedKeys(w1.cpu, codes) ]

\* A catch-up that issues at most one tick per call.
CatchUpOnce(w) ==
  IF w.emu.timer_acc > w.emu.timer_period
  THEN [ w EXCEPT !.emu.timer_acc = w.emu.timer_acc - w.emu.timer_period,
                  !.cpu = timer_tick(w.cpu),
                  !.issued.ticks = w.issued.ticks + 1,
                  !.last.ticked = w.last.ticked + 1 ]
  ELSE w

\* while self.timer_acc > self.timer_period { ...; self.cpu.timer_tick() }
RECURSIVE CatchUp(_)
CatchUp(w) ==
  IF w.emu.timer_acc > w.emu.timer_period
  THEN CatchUp([ w EXCEPT
                   !.emu.timer_acc = w.emu.timer_acc - w.emu.timer_period,
                   !.cpu = timer_tick(w.cpu),
                   !.issued.ticks = w.issued.ticks + 1,
                   !.last.ticked = w.last.ticked + 1 ])
  ELSE w

\* cpu_step that prints the fault and goes on.
cpu_stepGoesOn(w) ==
  LET r == step(w.cpu)
      w1 == [ w EXCEPT !.res = r.res, !.word = r.word, !.last.executed = TRUE,
                       !.issued.instructions = w.issued.instructions + 1 ]
  IN IF r.res \in Panics THEN [ w1 EXCEPT !.aborted = TRUE ]
     ELSE [ w1 EXCEPT !.cpu = r.s ]

\* Emulator::cpu_step: a fault is printed and pauses, and Ok is returned.
cpu_step(w) ==
  LET r == step(w.cpu)
      w1 == [ w EXCEPT !.res = r.res, !.word = r.word, !.last.executed = TRUE,
                       !.issued.instructions = w.issued.instructions + 1 ]
  IN IF r.res \in Panics THEN [ w1 EXCEPT !.aborted = TRUE ]
     ELSE IF r.res = "Ok" THEN [ w1 EXCEPT !.cpu = r.s ]
     ELSE pause([ w1 EXCEPT !.cpu = r.s ])

\* Emulator::step.  window_closing is window_handle.is_closing(), elapsed
\* what sys_time.elapsed() returns under the native clock.
emu_step(w, window_closing, keys_pressed, codes, elapsed) ==
  LET w1 == IF window_closing THEN quit(w) ELSE w
      w2 == IF ~ w1.emu.closing THEN read_inputs(w1, keys_pressed, codes)
            ELSE w1
  IN IF w2.failed THEN w2
     ELSE IF (~ w2.emu.paused \/ w2.emu.step > 0) /\ ~ w2.emu.closing
     THEN LET w3 == IF w2.emu.step > 0
                    THEN [ w2 EXCEPT !.emu.step = w2.emu.step - 1 ]
                    ELSE w2
              w4 == cpu_step(CatchUp(w3))
          IN IF w4.aborted THEN w4
             ELSE [ w4 EXCEPT !.emu.timer_acc =
                      w4.emu.timer_acc
                        + (IF w4.emu.clock_period = NativeClock
                           THEN elapsed ELSE w4.emu.clock_period) ]
     ELSE w2

----------------------------------------------------------------------------
(* Inputs *)

\* Instructions the driver is followed through between two resets.
MaxInstructions == 20

\* Pressed keys one get_keys_pressed() returns together.
MaxKeysPressed == 2

\* timer_period: Duration::from_secs_f64(1. / 60.), which a toolchain
\* truncates or rounds to the nanosecond.
TimerPeriods == { 16666666, 16666667 }

\* clock_period: the default, 1/20 s (--clock 20), or the native clock
\* (--clock 0).
ClockPeriods == { DEFAULT_CLOCK_PERIOD_NS, 50000000, NativeClock }

\* What sys_time.elapsed() returns under the native clock.
Elapsed == { 20000000 }

\* The keys read_inputs acts on.  get_keys_pressed() returns a HashSet, so
\* the keys of one batch come in any order.
ControlKeys == { "Escape", "F1", "F2", "Space", "Enter" }

KeysPressedBatches ==
  { s \in UNION { [ 1 .. n -> ControlKeys ] : n \in 0 .. MaxKeysPressed } :
      \A j, k \in DOMAIN s : j # k => s[j] # s[k] }

\* Codes of the mapped keys that are down.
MappedKeysDown == { {}, { 3 } }

\* window_handle.is_closing(): the flag is set by WindowHandle::close only,
\* which main calls after the loop.
WindowClosing == { FALSE }

\* Largest timer value a machine is handed over with (InitPreset).
MaxTimer == 2

\* load_rom calls explored between two resets.
MaxLoads == 2

\* ROM images handed to load_rom.  The interpreter dispatches on the high
\* byte of the word (Family), so the words that reach an arm are 0x0fkk.
RomRecurse == << 2, 0 >>                    \* 0200: CALL 0x200
RomNested ==                                \* calls two deep, then returns
  << 2, 6,      \* 200: CALL 0x206
     15, 10,    \* 202: LD Vx, K
     0, 0,      \* 204
     2, 10,     \* 206: CALL 0x20A
     0, 238,    \* 208: RET
     0, 224,    \* 20A: CLS
     0, 238 >>  \* 20C: RET
RomRet == << 0, 238 >>                      \* 00EE: RET with nothing pushed
RomMem ==
  << 15, 101,   \* 200: LD Vx, [I]
     10, 0,     \* 202: LD I, 0xA00
     15, 85,    \* 204: LD [I], Vx
     11, 16 >>  \* 206: JP V0, 0xB10
RomStore == << 15, 85, 1, 0 >>              \* LD [I], Vx; JP 0x100
RomLdImm == << 6, 66 >>                     \* 0642: dispatches to LD Vx, kk
RomTimer == << 15, 21 >>                    \* 0F15: dispatches to LD DT, Vx
RomWordJp == << 18, 4 >>                    \* 1204
RomWordCall == << 34, 4 >>                  \* 2204
RomWordLd == << 106, 66 >>                  \* 6A42
RomAddImm == << 7, 20 >>                    \* 0714: dispatches to ADD Vx, kk
RomOr == << 8, 17 >>                        \* 0811: dispatches to OR Vx, Vy
RomAnd == << 8, 18 >>                       \* 0812: dispatches to AND Vx, Vy
RomXor == << 8, 19 >>                       \* 0813: dispatches to XOR Vx, Vy
RomAdd == << 8, 20 >>                       \* 0814: dispatches to ADD Vx, Vy
RomSub == << 8, 21 >>                       \* 0815: dispatches to SUB Vx, Vy
RomShr == << 8, 22 >>                       \* 0816: dispatches to SHR Vx
RomSubn == << 8, 23 >>                      \* 0817: dispatches to SUBN Vx, Vy
RomShl == << 8, 30 >>                       \* 081E: dispatches to SHL Vx
RomDrw == << 13, 5 >>                       \* 0D05: dispatches to DRW
RomWordStore == << 242, 85 >>               \* F255
RomLargest ==                               \* 3583 bytes: ends at 0xFFE
  [ k \in 1 .. RAM_LEN - ADDR_PROGRAM - 1 |->
      IF k = RAM_LEN - ADDR_PROGRAM - 1 THEN 1 ELSE 0 ]
RomTooLarge ==                              \* 3584 bytes: would end at 0xFFF
  [ k \in 1 .. RAM_LEN - ADDR_PROGRAM |-> IF k = 1 THEN 238 ELSE 0 ]
RomRoundTrip ==                             \* store, clear, load back
  << 15, 101,   \* 200: LD Vx, [I]   registers := font bytes 0..15
     10, 0,     \* 202: LD I, 0xA00
     15, 85,    \* 204: LD [I], Vx   store at 0xA00
     10, 128,   \* 206: LD I, 0xA80
     15, 101,   \* 208: LD Vx, [I]   registers := 0 (memory there is 0)
     10, 0,     \* 20A: LD I, 0xA00
     15, 101 >> \* 20C: LD Vx, [I]   load back

Roms ==
  { RomRecurse, RomNested, RomRet, RomMem, RomStore, RomLdImm, RomTimer,
    RomWordJp, RomWordCall, RomWordLd, RomAddImm, RomOr, RomAnd, RomXor,
    RomAdd, RomSub, RomShr, RomSubn, RomShl, RomDrw, RomRoundTrip,
    RomWordStore }

\* ROM images around the largest size load_rom accepts.
BoundaryRoms == { RomLargest, RomTooLarge, RomStore, RomNested }

\* ROM images the driver is started with.
EmuRoms == { RomRet, RomNested }

\* Generator states StdRng::from_entropy() may hand to Chip8::new(); none
\* is a state of the stream seeded from RNG_SEED.
EntropyStates == { -1, -2 }

\* Key codes handed to set_key (a code above 15 is masked).
KeyInputs == { 3, 31 }

----------------------------------------------------------------------------
(* Initial states *)

\* Chip8::new(): the struct literal, its generator taken from entropy,
\* then reset().
NewChip8(entropy) ==
  reset([ v |-> ZeroRegs,
          i |-> 0, vf |-> 0, dt |-> 0, st |-> 0, pc |-> 0, sp |-> 0,
          stack |-> ZeroStack, ram |-> ZeroRam, display |-> BlankDisplay,
          keys |-> NoKeys, rng |-> entropy ])

InitWith(s) ==
  /\ v = s.v
  /\ i = s.i
  /\ vf = s.vf
  /\ dt = s.dt
  /\ st = s.st
  /\ pc = s.pc
  /\ sp = s.sp
  /\ stack = s.stack
  /\ ram = s.ram
  /\ display = s.display
  /\ keys = s.keys
  /\ rng = s.rng
  /\ overflow_checks \in BOOLEAN
  /\ halted = FALSE
  /\ lastOp = "new"
  /\ result = "Ok"
  /\ opcode = 0
  /\ loads = 0
  /\ romLen = 0
  /\ emu = NoEmulator
  /\ issued = NothingIssued
  /\ last = NothingDone

Init == \E e \in EntropyStates : InitWith(NewChip8(e))

\* Every field of Chip8 is pub: the owner of the aggregate may hand over a
\* machine whose timers are running.
InitPreset ==
  \E e \in EntropyStates, d \in 0 .. MaxTimer, t \in 0 .. MaxTimer :
    InitWith([ NewChip8(e) EXCEPT !.dt = d, !.st = t ])

----------------------------------------------------------------------------
(* Actions *)

Reset ==
  /\ ~ halted
  /\ \E s \in { reset(Machine) } : SetMachine(s)
  /\ lastOp' = "reset"
  /\ result' = "Ok"
  /\ loads' = 0
  /\ romLen' = 0
  /\ UNCHANGED << overflow_checks, halted, opcode, driverVars >>

LoadRomFrom(roms) ==
  /\ ~ halted
  /\ loads < MaxLoads
  /\ \E data \in roms :
       \E r \in { load_rom(Machine, data) } :
          /\ SetMachine(r.s)
          /\ result' = r.res
          /\ romLen' = Len(data)
  /\ lastOp' = "load_rom"
  /\ loads' = loads + 1
  /\ UNCHANGED << overflow_checks, halted, opcode, driverVars >>

SetKey ==
  /\ ~ halted
  /\ \E key \in KeyInputs : \E s \in { set_key(Machine, key) } : SetMachine(s)
  /\ lastOp' = "set_key"
  /\ result' = "Ok"
  /\ UNCHANGED << overflow_checks, halted, opcode, loads, romLen, driverVars >>

TimerTick ==
  /\ ~ halted
  /\ \E s \in { timer_tick(Machine) } : SetMachine(s)
  /\ lastOp' = "timer_tick"
  /\ result' = "Ok"
  /\ UNCHANGED << overflow_checks, halted, opcode, loads, romLen, driverVars >>

\* A panic aborts the process: the machine is gone, the model freezes it.
Step ==
  /\ ~ halted
  /\ \E r \in { step(Machine) } :
        /\ IF r.res \in Panics
           THEN UNCHANGED machineVars
           ELSE SetMachine(r.s)
        /\ result' = r.res
        /\ opcode' = r.word
        /\ halted' = (r.res \in Panics)
  /\ lastOp' = "step"
  /\ UNCHANGED << overflow_checks, loads, romLen, driverVars >>

LoadRom == LoadRomFrom(Roms)

LoadBoundaryRom == LoadRomFrom(BoundaryRoms)

Next == Reset \/ LoadRom \/ SetKey \/ TimerTick \/ Step

\* The same machine handed the ROM images of BoundaryRoms.
NextBoundary == Reset \/ LoadBoundaryRom \/ SetKey \/ TimerTick \/ Step

Spec == Init /\ [][Next]_vars

SpecPreset == InitPreset /\ [][Next]_vars

SpecBoundary == Init /\ [][NextBoundary]_vars

\* main: Emulator::new(), the clock option, emu.rom = program_rom and
\* emu.reset(), which succeeds for a rom that fits.
InitEmu ==
  \E e \in EntropyStates, rom \in EmuRoms,
     cp \in ClockPeriods, tp \in TimerPeriods :
    \E w \in { emu_reset(
                  [ cpu |-> NewChip8(e),
                    emu |-> [ NewEmulator(tp) EXCEPT !.clock_period = cp,
                                                     !.rom = rom ],
                    issued |-> NothingIssued, last |-> NothingDone,
                    res |-> "Ok", word |-> 0,
                    aborted |-> FALSE, failed |-> FALSE ]) } :
      /\ ~ w.failed
      /\ v = w.cpu.v
      /\ i = w.cpu.i
      /\ vf = w.cpu.vf
      /\ dt = w.cpu.dt
      /\ st = w.cpu.st
      /\ pc = w.cpu.pc
      /\ sp = w.cpu.sp
      /\ stack = w.cpu.stack
      /\ ram = w.cpu.ram
      /\ display = w.cpu.display
      /\ keys = w.cpu.keys
      /\ rng = w.cpu.rng
      /\ overflow_checks \in BOOLEAN
      /\ halted = FALSE
      /\ lastOp = "new"
      /\ result = "Ok"
      /\ opcode = 0
      /\ loads = 0
      /\ romLen = Len(rom)
      /\ emu = w.emu
      /\ issued = w.issued
      /\ last = w.last

\* One pass of the loop of main.  A panic in cpu.step() and an Err that
\* Emulator::step returns both end the process.
EmuStep ==
  /\ ~ halted
  /\ issued.instructions < MaxInstructions
  /\ \E window_closing \in WindowClosing, keys_pressed \in KeysPressedBatches,
        codes \in MappedKeysDown,
        elapsed \in (IF emu.clock_period = NativeClock THEN Elapsed ELSE { 0 }) :
       \E w \in { emu_step(World, window_closing, keys_pressed, codes,
                            elapsed) } :
          /\ IF w.aborted
             THEN UNCHANGED << machineVars, emu, issued >>
             ELSE SetMachine(w.cpu) /\ emu' = w.emu /\ issued' = w.issued
          /\ last' = w.last
          /\ result' = w.res
          /\ opcode' = w.word
          /\ halted' = (w.aborted \/ w.failed)
  /\ lastOp' = "emu_step"
  /\ UNCHANGED << overflow_checks, loads, romLen >>

NextEmu == EmuStep

SpecEmu == InitEmu /\ [][NextEmu]_vars

----------------------------------------------------------------------------
(* Properties *)

\* The nibbles of a word, most significant first, and its low byte.
Nibble0(w) == w \div 4096
Nibble3(w) == w % 16
LowByte(w) == w % 256

\* The decode table of the interpreter's specification: the words that
\* name an instruction.
InDecodeTable(w) ==
  \/ w = 224
  \/ w = 238
  \/ Nibble0(w) \in { 1, 2, 3, 4, 6, 7, 10, 11, 12, 13 }
  \/ Nibble0(w) \in { 5, 9 } /\ Nibble3(w) = 0
  \/ Nibble0(w) = 8 /\ Nibble3(w) \in { 0, 1, 2, 3, 4, 5, 6, 7, 14 }
  \/ Nibble0(w) = 14 /\ LowByte(w) \in { 158, 161 }
  \/ Nibble0(w) = 15 /\ LowByte(w) \in { 7, 10, 21, 24, 30, 41, 51, 85, 101 }

\* Fx15 / Fx18, the two instructions that load a timer.
IsTimerLoad(w) == Nibble0(w) = 15 /\ LowByte(w) \in { 21, 24 }

C3_TimerTick ==
  [][ lastOp' = "timer_tick"
        => /\ dt' = (IF dt > 0 THEN dt - 1 ELSE 0)
           /\ st' = (IF st > 0 THEN st - 1 ELSE 0)
           /\ dt' \in 0 .. 255 /\ st' \in 0 .. 255
           /\ UNCHANGED << v, i, vf, pc, sp, stack, ram, display, keys, rng >>
    ]_vars

\* A tick that took the delay timer from 2 to 1 while the sound timer is 0.
C3_Witness == lastOp = "timer_tick" /\ dt = 1 /\ st = 0

\* C4: step() returns UnknownOpCode exactly for the words outside the
\* decode table, and every word 1nnn is a jump that sets pc = nnn.
C4_DecodeTable ==
  lastOp = "step" =>
    /\ (result = "UnknownOpCode") <=> ~ InDecodeTable(opcode)
    /\ Nibble0(opcode) = 1 => (result = "Ok" /\ pc = opcode % 4096)

\* C5: LD Vx, kk sets register x, the second nibble of the word, to kk,
\* advances pc by 2 and leaves the other registers, I, sp, the stack, memory
\* and the framebuffer alone; no step indexes a register outside V0..VF.
\* The instruction is the word the interpreter dispatches to its LD Vx, kk
\* arm.
C5_LdImm ==
  [][ lastOp' = "step"
        => /\ result' # "PanicIndexV"
           /\ Family(opcode') = 6
                => /\ result' = "Ok"
                   /\ v' = [ v EXCEPT ![(opcode' \div 256) % 16] =
                                          LowByte(opcode') ]
                   /\ pc' = pc + 2
                   /\ UNCHANGED << i, sp, stack, ram, display >>
    ]_vars

\* C6: a call with 16 return addresses on the stack fails with
\* StackOverflow; with fewer it pushes the current pc and sets pc = nnn.
\* The instruction is the word the interpreter dispatches to its CALL arm;
\* sp counts the return addresses held.
C6_Call ==
  [][ (lastOp' = "step" /\ Family(opcode') = 2)
        => IF sp >= STACK_LEN
           THEN result' = "StackOverflow"
           ELSE /\ result' = "Ok"
                /\ sp' = sp + 1
                /\ stack'[sp'] = pc
                /\ pc' = opcode' % 4096
    ]_vars

\* C7: the stack pointer stays within 0..16 and no CALL or RET indexes the
\* stack outside its 16 entries.
C7_StackBounds == sp \in 0 .. STACK_LEN /\ result # "PanicIndexStack"

\* The machine as reset() leaves it, but for a program at ADDR_PROGRAM.
FreshlyReset ==
  /\ v = ZeroRegs /\ i = 0 /\ vf = 0 /\ dt = 0 /\ st = 0
  /\ pc = ADDR_PROGRAM /\ sp = 0 /\ stack = ZeroStack
  /\ display = BlankDisplay /\ keys = NoKeys /\ rng = RNG_SEEDED
  /\ \A a \in 0 .. ADDR_PROGRAM - 1 :
       MemGet(ram, a) =
         IF a < Len(CHARACTER_ROM) THEN CHARACTER_ROM[a + 1] ELSE 0

\* C8: RET (00EE) on a freshly reset machine yields StackUnderflow and
\* leaves the machine identical to the freshly reset one.
C8_RetOnFreshMachine ==
  [][ (FreshlyReset /\ lastOp' = "step" /\ opcode' = 238)
        => (result' = "StackUnderflow" /\ UNCHANGED machineVars) ]_vars

\* The step that fetched 00EE on the freshly reset machine and underflowed.
C8_Witness ==
  lastOp = "step" /\ opcode = 238 /\ result = "StackUnderflow" /\ FreshlyReset

\* C9: on any stack that is not full a CALL at pc = p succeeds, and the
\* matching RET leaves pc = p + 2 and sp at its value before the CALL;
\* nested calls return last-in-first-out.  Stated per instruction: CALL
\* puts p on top and touches no other entry, RET resumes two past the top
\* entry, drops it and touches no entry.
C9_CallRetRoundTrip ==
  [][ lastOp' = "step"
        => /\ (Family(opcode') = 2 /\ sp < STACK_LEN)
                => /\ result' = "Ok"
                   /\ sp' = sp + 1
                   /\ stack'[sp'] = pc
                   /\ \A k \in 0 .. STACK_LEN - 1 :
                        k # sp' => stack'[k] = stack[k]
           /\ (opcode' = 238 /\ sp > 0)
                => /\ result' = "Ok"
                   /\ pc' = stack[sp] + 2
                   /\ sp' = sp - 1
                   /\ stack' = stack
    ]_vars

\* C10: after reset() pc is 0x200, every register, I, both timers, sp and
\* all stack slots are 0, the framebuffer is unlit, no key is pressed, and
\* memory holds the font in bytes 0..79 and 0 everywhere else.
C10_Reset ==
  lastOp = "reset" =>
    /\ pc = 512
    /\ \A r \in 0 .. 15 : v[r] = 0
    /\ vf = 0 /\ i = 0 /\ dt = 0 /\ st = 0 /\ sp = 0
    /\ \A k \in 0 .. 15 : stack[k] = 0
    /\ \A d \in 0 .. 2047 : d \notin display
    /\ \A k \in 0 .. 15 : keys[k] = FALSE
    /\ \A a \in 0 .. 79 : MemGet(ram, a) = CHARACTER_ROM[a + 1]
    /\ \A a \in 80 .. 4095 : MemGet(ram, a) = 0

\* A reset() of a machine whose last instruction was LD [I], Vx (0F55): a
\* program had been loaded and run, and had written memory.
C10_Witness == lastOp = "reset" /\ opcode = 3925

\* The operand nibbles of a word as the instruction table writes them:
\* x is the second nibble, y the third.
NibbleX(w) == (w \div 256) % 16
NibbleY(w) == (w \div 16) % 16

\* C11: the flag register is general register 0xF: the flag the machine
\* holds and register V[0xF] are one cell, so what a flag-defining
\* instruction leaves in the flag is what a later instruction reads as VF.
C11_FlagIsRegisterF == vf = v[15]

\* C12: ADD Vx, Vy sets Vx = (Vx + Vy) mod 256 and the flag to 1 when the
\* sum of the values before the write exceeds 255, else to 0.  The
\* instruction is the word the interpreter dispatches to its ADD Vx, Vy arm.
C12_AddReg ==
  [][ (lastOp' = "step" /\ Family(opcode') = 8 /\ Nibble3(opcode') = 4)
        => /\ result' = "Ok"
           /\ v'[NibbleX(opcode')] =
                (v[NibbleX(opcode')] + v[NibbleY(opcode')]) % 256
           /\ vf' = (IF v[NibbleX(opcode')] + v[NibbleY(opcode')] > 255
                     THEN 1 ELSE 0)
    ]_vars

\* C13: SUB Vx, Vy sets Vx = (Vx - Vy) mod 256 and the flag to 1 exactly
\* when Vx >= Vy before the write; SUBN Vx, Vy sets Vx = (Vy - Vx) mod 256
\* and the flag to 1 exactly when Vy >= Vx before the write.
C13_SubSubn ==
  [][ lastOp' = "step" /\ Family(opcode') = 8
        => /\ Nibble3(opcode') = 5
                => /\ result' = "Ok"
                   /\ v'[NibbleX(opcode')] =
                        (v[NibbleX(opcode')] - v[NibbleY(opcode')]) % 256
                   /\ vf' = (IF v[NibbleX(opcode')] >= v[NibbleY(opcode')]
                             THEN 1 ELSE 0)
           /\ Nibble3(opcode') = 7
                => /\ result' = "Ok"
                   /\ v'[NibbleX(opcode')] =
                        (v[NibbleY(opcode')] - v[NibbleX(opcode')]) % 256
                   /\ vf' = (IF v[NibbleY(opcode')] >= v[NibbleX(opcode')]
                             THEN 1 ELSE 0)
    ]_vars

\* C14: SHR Vx sets the flag to bit 0 of the old Vx and Vx to old Vx >> 1;
\* SHL Vx sets the flag to bit 7 of the old Vx (0 or 1) and Vx to
\* (old Vx << 1) mod 256.
C14_Shifts ==
  [][ lastOp' = "step" /\ Family(opcode') = 8
        => /\ Nibble3(opcode') = 6
                => /\ result' = "Ok"
                   /\ vf' = v[NibbleX(opcode')] % 2
                   /\ v'[NibbleX(opcode')] = v[NibbleX(opcode')] \div 2
           /\ Nibble3(opcode') = 14
                => /\ result' = "Ok"
                   /\ vf' = v[NibbleX(opcode')] \div 128
                   /\ v'[NibbleX(opcode')] = (v[NibbleX(opcode')] * 2) % 256
    ]_vars

\* C15: OR, AND and XOR Vx, Vy set Vx to the bitwise OR, AND and XOR of the
\* values Vx and Vy held before the instruction.
C15_Logic ==
  [][ lastOp' = "step" /\ Family(opcode') = 8
        => /\ Nibble3(opcode') = 1
                => /\ result' = "Ok"
                   /\ v'[NibbleX(opcode')] =
                        BitOr(v[NibbleX(opcode')], v[NibbleY(opcode')])
           /\ Nibble3(opcode') = 2
                => /\ result' = "Ok"
                   /\ v'[NibbleX(opcode')] =
                        BitAnd(v[NibbleX(opcode')], v[NibbleY(opcode')])
           /\ Nibble3(opcode') = 3
                => /\ result' = "Ok"
                   /\ v'[NibbleX(opcode')] =
                        BitXor(v[NibbleX(opcode')], v[NibbleY(opcode')])
    ]_vars

\* C16: ADD Vx, kk sets Vx = (Vx + kk) mod 256 for every Vx and kk, returns
\* no fault and leaves the flag as it was.
C16_AddImm ==
  [][ (lastOp' = "step" /\ Family(opcode') = 7)
        => /\ result' = "Ok"
           /\ v'[NibbleX(opcode')] =
                (v[NibbleX(opcode')] + LowByte(opcode')) % 256
           /\ vf' = vf
           /\ \A r \in 0 .. 15 : r # NibbleX(opcode') => v'[r] = v[r]
    ]_vars

\* C17: step() returns Ok or one of the three faults and never aborts.
C17_StepNeverAborts ==
  /\ ~ halted
  /\ lastOp = "step" => result \in { "Ok" } \cup Faults

\* The cells a sprite of n rows covers with its 1 bits: row r is the byte at
\* base + r, bit 7 at column 0, drawn at (vx + column, vy + r), both wrapped.
SpriteCells(mem, base, vx, vy, n) ==
  { ((vy + r) % 32) * 64 + ((vx + c) % 64) :
      << r, c >> \in { rc \in (0 .. n - 1) \X (0 .. 7) :
                       (MemGet(mem, (base + rc[1]) % 4096)
                          \div (2 ^ (7 - rc[2]))) % 2 = 1 } }

\* XOR of two sets of lit cells.
SymDiff(a, b) == (a \ b) \cup (b \ a)

\* The sprite the DRW word w names in the current state.
DrwCells(w) ==
  SpriteCells(ram, i, v[NibbleX(w)], v[NibbleY(w)], Nibble3(w))

\* C18: drawing the same sprite a second time at the same place gives back
\* the framebuffer as it was before the first draw: a DRW succeeds, and
\* toggling its sprite once more on the framebuffer it leaves yields the
\* framebuffer it started from.
C18_DrawTwiceRestores ==
  [][ (lastOp' = "step" /\ Family(opcode') = 13)
        => /\ result' = "Ok"
           /\ UNCHANGED << i, ram >>
           /\ SymDiff(display', DrwCells(opcode')) = display
    ]_vars

\* C19: DRW XOR-toggles exactly the cells under the 1 bits of the sprite,
\* and leaves the flag at 1 if and only if one of these cells was lit
\* before, whatever the flag held.
C19_DrawCollision ==
  [][ (lastOp' = "step" /\ Family(opcode') = 13)
        => /\ result' = "Ok"
           /\ \A d \in 0 .. 2047 :
                (d \in display') <=>
                   ((d \in display) # (d \in DrwCells(opcode')))
           /\ vf' = (IF DrwCells(opcode') \cap display # {} THEN 1 ELSE 0)
    ]_vars

C21_BlockCopyFrame ==
  [][ (lastOp' = "step" /\ Nibble0(opcode') = 15)
        => /\ LowByte(opcode') = 85
                => /\ result' = "Ok"
                   /\ \A k \in 0 .. NibbleX(opcode') :
                        MemGet(ram', (i + k) % 4096) = v[k]
                   /\ \A a \in 0 .. 4095 :
                        (\A k \in 0 .. NibbleX(opcode') : a # (i + k) % 4096)
                          => MemGet(ram', a) = MemGet(ram, a)
           /\ LowByte(opcode') = 101
                => /\ result' = "Ok"
                   /\ \A k \in 0 .. 15 :
                        v'[k] = IF k <= NibbleX(opcode')
                                THEN MemGet(ram, (i + k) % 4096)
                                ELSE v[k]
    ]_vars

\* C22: when step() has returned, whether Ok or a fault, no key is marked
\* pressed: a key set before a step is seen by that step alone.
C22_KeysClearedAfterStep ==
  (lastOp = "step" /\ result \in { "Ok" } \cup Faults) => keys = NoKeys

\* C23: LD Vx, K never blocks: with no key pressed the step succeeds and
\* leaves pc and the registers as they were; with a key pressed it succeeds,
\* puts the index of a pressed key in Vx and advances pc by 2.  The
\* instruction is the word the interpreter dispatches to its LD Vx, K arm.
C23_WaitKey ==
  [][ (lastOp' = "step" /\ Family(opcode') = 15 /\ LowByte(opcode') = 10)
        => IF \A k \in 0 .. 15 : ~ keys[k]
           THEN result' = "Ok" /\ pc' = pc /\ v' = v
           ELSE /\ result' = "Ok"
                /\ pc' = pc + 2
                /\ keys[v'[NibbleX(opcode')]]
    ]_vars

\* C24: load_rom fails exactly when 0x200 + len >= 4096 and then leaves the
\* machine as it was; otherwise it copies the bytes to 0x200 .. 0x200 +
\* len - 1 and leaves every other byte of memory, the font included, and
\* the rest of the machine as they were.
C24_LoadRom ==
  [][ lastOp' = "load_rom"
        => /\ (result' = "OutOfBounds") <=> (512 + romLen' >= 4096)
           /\ result' \in { "Ok", "OutOfBounds" }
           /\ UNCHANGED << v, i, vf, dt, st, pc, sp, stack, display, keys, rng >>
           /\ result' = "OutOfBounds" => ram' = ram
           /\ result' = "Ok" =>
                \E data \in BoundaryRoms :
                   /\ Len(data) = romLen'
                   /\ \A a \in 512 .. 511 + romLen' :
                        MemGet(ram', a) = data[a - 511]
                   /\ \A a \in (DOMAIN ram \cup DOMAIN ram') :
                        a \notin 512 .. 511 + romLen'
                          => MemGet(ram', a) = MemGet(ram, a)
    ]_vars

\* An image of 3584 bytes was refused after the image of 3583 bytes had
\* been accepted: the last byte of that one still sits at 0xFFE.
C24_Witness ==
  /\ lastOp = "load_rom" /\ result = "OutOfBounds" /\ romLen = 3584
  /\ MemGet(ram, 4094) = 1

C26_FontImmutable ==
  \A a \in 0 .. 79 : MemGet(ram, a) = CHARACTER_ROM[a + 1]

\* C27: under a fixed clock the ticks issued times the timer period, plus
\* the accumulator, equal the instructions executed times the clock period
\* since the last reset; the catch-up loop leaves at most one timer period
\* in the accumulator, to which the instruction adds one clock period; and
\* the number of ticks is a function of the number of instructions and the
\* two periods alone: before instruction n the loop has issued every tick
\* that (n - 1) clock periods hold, but for the last timer period.
C27_TimerAccounting ==
  emu.clock_period # NativeClock =>
    /\ issued.ticks * emu.timer_period + emu.timer_acc
          = issued.instructions * emu.clock_period
    /\ emu.timer_acc <= emu.timer_period + emu.clock_period
    /\ emu.timer_acc >= 0
    /\ issued.instructions > 0 =>
          \E owed \in { ((issued.instructions - 1) * emu.clock_period
                           + emu.timer_period - 1) \div emu.timer_period } :
             issued.ticks = IF owed > 0 THEN owed - 1 ELSE 0

\* Twenty instructions at 1/20 s each: fifty-six ticks have been issued.
C27_Witness ==
  /\ lastOp = "emu_step" /\ emu.clock_period = 50000000
  /\ issued.instructions = 20 /\ issued.ticks = 56 /\ last.ticked = 3

\* C28: a fault of cpu.step() pauses the driver and is not handed on; a
\* paused driver that is not closing executes no instruction and issues no
\* tick unless Space unpauses it or Enter asks for a step; a step asked
\* for with Enter executes one instruction; a closing driver executes
\* nothing more and stays closing.
C28_PauseOnFault ==
  [][ lastOp' = "emu_step"
        => /\ (last'.executed /\ result' \in Faults)
                => (emu'.paused /\ ~ halted')
           /\ (emu.paused /\ emu.step = 0 /\ ~ emu.closing
                 /\ ~ last'.unpaused /\ ~ last'.entered)
                => (~ last'.executed /\ last'.ticked = 0)
           /\ (last'.entered /\ ~ emu'.closing /\ ~ halted')
                => /\ last'.executed
                   /\ issued'.instructions \in { issued.instructions + 1, 1 }
                   /\ emu'.step = emu.step
           /\ ~ last'.executed
                => (last'.ticked = 0
                      /\ issued'.instructions \in { issued.instructions, 0 })
           /\ emu.closing
                => (~ last'.executed /\ emu'.closing /\ UNCHANGED machineVars)
    ]_vars

\* The driver had paused on a fault; Enter asked for one step, which ran
\* the faulting instruction once more and left the driver paused.
C28_Witness ==
  /\ lastOp = "emu_step" /\ last.entered /\ last.executed
  /\ result = "StackUnderflow" /\ emu.paused /\ ~ emu.closing
  /\ emu.step = 0 /\ issued.instructions = 2

\* disasm.rs split_opcode: the four nibbles of the two bytes of a word.
split_opcode(hi, lo) ==
  << Shr(BitAnd(hi, 240), 4), BitAnd(hi, 15), Shr(BitAnd(lo, 240), 4),
     BitAnd(lo, 15) >>

\* What a mnemonic says: the instruction name and the operands its
\* hexadecimal digits spell, in the order they are printed.
Text(name, operands) == [ name |-> name, operands |-> operands ]
NoText == Text("", << >>)

\* The match of disassemble on the nibbles of one word, first arm first.
Mnemonic(hi, lo) ==
  LET n == split_opcode(hi, lo)
      f == n[1]
      x == n[2]
      y == n[3]
      z == n[4]
      xyz == x * 256 + y * 16 + z
      yz == y * 16 + z
  IN  CASE f = 0 /\ x = 0 /\ y = 14 /\ z = 0 -> Text("CLS", << >>)
        [] f = 0 /\ x = 0 /\ y = 14 /\ z = 14 -> Text("RET", << >>)
        [] f = 0 /\ ~ (x = 0 /\ y = 14 /\ z \in { 0, 14 }) ->
             Text("SYS", << xyz >>)
        [] f = 1 -> Text("JP", << xyz >>)
        [] f = 2 -> Text("CALL", << xyz >>)
        [] f = 3 -> Text("SE Vx, kk", << x, yz >>)
        [] f = 4 -> Text("SNE Vx, kk", << x, yz >>)
        [] f = 5 /\ z = 0 -> Text("SE Vx, Vy", << x, y >>)
        [] f = 6 -> Text("LD Vx, kk", << x, yz >>)
        [] f = 7 -> Text("ADD Vx, kk", << x, yz >>)
        [] f = 8 /\ z = 0 -> Text("LD Vx, Vy", << x, y >>)
        [] f = 8 /\ z = 1 -> Text("OR", << x, y >>)
        [] f = 8 /\ z = 2 -> Text("AND", << x, y >>)
        [] f = 8 /\ z = 3 -> Text("XOR", << x, y >>)
        [] f = 8 /\ z = 4 -> Text("ADD Vx, Vy", << x, y >>)
        [] f = 8 /\ z = 5 -> Text("SUB", << x, y >>)
        [] f = 8 /\ z = 6 -> Text("SHR", << x, y >>)
        [] f = 8 /\ z = 7 -> Text("SUBN", << x, y >>)
        [] f = 8 /\ z = 14 -> Text("SHL", << x, y >>)
        [] f = 9 /\ z = 0 -> Text("SNE Vx, Vy", << x, y >>)
        [] f = 10 -> Text("LD I", << xyz >>)
        [] f = 11 -> Text("JP V0", << xyz >>)
        [] f = 12 -> Text("RND", << x, yz >>)
        [] f = 13 -> Text("DRW", << x, y, z >>)
        [] f = 14 /\ y = 9 /\ z = 14 -> Text("SKP", << x >>)
        [] f = 14 /\ y = 10 /\ z = 1 -> Text("SKNP", << x >>)
        [] f = 15 /\ y = 0 /\ z = 7 -> Text("LD Vx, DT", << x >>)
        [] f = 15 /\ y = 0 /\ z = 10 -> Text("LD Vx, K", << x >>)
        [] f = 15 /\ y = 1 /\ z = 5 -> Text("LD DT, Vx", << x >>)
        [] f = 15 /\ y = 1 /\ z = 8 -> Text("LD ST, Vx", << x >>)
        [] f = 15 /\ y = 1 /\ z = 14 -> Text("ADD I, Vx", << x >>)
        [] f = 15 /\ y = 2 /\ z = 9 -> Text("LD F, Vx", << x >>)
        [] f = 15 /\ y = 3 /\ z = 3 -> Text("LD B, Vx", << x >>)
        [] f = 15 /\ y = 5 /\ z = 5 -> Text("LD [I], Vx", << x >>)
        [] f = 15 /\ y = 6 /\ z = 5 -> Text("LD Vx, [I]", << x >>)
        [] OTHER -> NoText

\* rom.chunks(2): chunk k (from 0) holds bytes 2k and 2k + 1, the last chunk
\* one byte when the length is odd.
Chunks(rom) ==
  [ k \in 1 .. ((Len(rom) + 1) \div 2) |->
      SubSeq(rom, 2 * k - 1, IF 2 * k <= Len(rom) THEN 2 * k ELSE Len(rom)) ]

\* disassemble: one line per chunk, labelled i + offset for chunk i.
disassemble(rom, offset) ==
  LET chunks == Chunks(rom)
  IN  [ k \in 1 .. Len(chunks) |->
          [ label |-> (k - 1) + offset,
            op_hex |-> chunks[k],
            mnemonic |-> IF Len(chunks[k]) = 2
                         THEN Mnemonic(chunks[k][1], chunks[k][2])
                         ELSE NoText ] ]

\* The image load_rom has just copied to ADDR_PROGRAM, which main hands to
\* disassemble with offset 0x200 in disassemble mode.
LoadedRom == [ k \in 1 .. romLen |-> MemGet(ram, ADDR_PROGRAM + k - 1) ]

\* C29: the disassembler prints a mnemonic for a word exactly when step()
\* on that word does not return UnknownOpCode, and it prints one line per
\* 2-byte chunk of the image, line k (from 0) labelled origin + 2 * k.
C29_SameDecodeTable ==
  /\ (lastOp = "step" /\ result \notin Panics)
       => ((Mnemonic(opcode \div 256, opcode % 256) # NoText)
             <=> (result # "UnknownOpCode"))
  /\ (lastOp = "load_rom" /\ result = "Ok")
       => LET lines == disassemble(LoadedRom, ADDR_PROGRAM)
          IN  /\ Len(lines) = (romLen + 1) \div 2
              /\ \A k \in DOMAIN lines :
                   lines[k].label = ADDR_PROGRAM + 2 * (k - 1)

====
